---- MODULE Spec2Model ----
(***************************************************************************)
(* Orchestrator service of the kiosk project                               *)
(* (src/services/orchestrator/src/index.js): the in-memory session         *)
(* registry, its inactivity timers, the periodic cleanup job and the       *)
(* /converse pipeline with the dispatch timers it arms.                    *)
(*                                                                         *)
(* Time is the server clock Date.now() in milliseconds since start-up.     *)
(* A node timer fires at its deadline: time never advances past the        *)
(* deadline of a timer that is still pending.                              *)
(***************************************************************************)
EXTENDS Integers, Sequences, FiniteSets, TLC

VARIABLES
    now,              \* Date.now()
    sessions,         \* const sessions = new Map(): session_id -> session object
    sessionTimeouts,  \* const sessionTimeouts = new Map(): session_id -> timer handle
    roomDeletes,      \* number of roomService.deleteRoom calls per session room
    turns,            \* /converse handlers suspended at an await
    goodbye,          \* POST /session/:id/end handlers suspended at an await, per session
    dispatch,         \* armed setTimeout handles of the /converse scheduling loop
    preloading,       \* img_preload callbacks awaiting the ImageScreener
    channel,          \* datachannel of each session's room: the messages in flight
                      \* to the kiosk, in the order sent
    nextId,           \* sessions created so far (ids are minted fresh)
    requests,         \* requests received so far
    sweepDue,         \* the cleanup interval has elapsed and its callback has not run
    op,               \* the handler that ran last: its name, its session and the
                      \* HTTP status it answered with (0: none, or none yet)
    conversations,    \* LLM service: const conversations = new Map()
    chats,            \* LLM service: POST /chat handlers suspended at the Ollama call
    chatOp,           \* LLM service: the handler that ran last and its answer
    cacheFiles,       \* TTS service: the files of CACHE_DIR, by the text they are keyed on
    writes,           \* TTS service: fs.writeFile calls in progress
    synths,           \* TTS service: syntheses in progress
    synthCalls,       \* TTS service: synthesiser invocations so far, per text
    firstAudio,       \* TTS service: the audio of the first completed response, per text
    ttsOp,            \* TTS service: the handler that ran last and the audio it answered
    clientNow,        \* web kiosk: performance.now() of the page
    timeOffset,       \* ImageScheduler.timeOffset: {} for null, else {offset}
    syncInitialized,  \* ImageScheduler.syncInitialized
    preloadedImages,  \* ImageScheduler.preloadedImages: Map id -> {img, url, loadedAt}
    scheduledShows,   \* ImageScheduler.scheduledShows: array of {id, timeoutId}
    timeouts,         \* web kiosk: the armed setTimeout handles of the page
    loading,          \* web kiosk: new Image() loads awaited by preload()
    currentBuffer,    \* ImageScheduler.currentBuffer
    currentImageId,   \* ImageScheduler.currentImageId ("" for null)
    containers,       \* web kiosk: backgroundImage and inline opacity of the two buffers
    animations,       \* web kiosk: crossfades whose animate callback is still requested
    nextTimeoutId,    \* web kiosk: the handle the next setTimeout returns
    schedOp,          \* web kiosk: the handler that ran last and what it decided
    rendererNow,      \* electron kiosk: performance.now() of the renderer
    imageSync,        \* electron kiosk: imageSync.timeOffset and .scheduledImages
    rendererTimeouts, \* electron kiosk: the armed setTimeout handles of the renderer
    imageBuffers,     \* electron kiosk: src, 'visible' class and pending load of the
                      \* two <img> buffers
    rendererBuffer,   \* electron kiosk: let currentBuffer
    kioskOp,          \* electron kiosk: the handler that ran last
    imageLibrary,     \* orchestrator: let imageLibrary, its collections flattened
    enriched,         \* orchestrator: the last call of enrichImagePayload
    operatorUpdate,   \* orchestrator: the sessions of the last sessions_update message
    mockNow,          \* mock TTS: Date.now()
    mockStream,       \* mock TTS: the interval of startMockStream and its frameId
    mockTimeouts,     \* mock TTS: the armed setTimeout handles of the frames
    mockSent,         \* mock TTS: the message types sent on the connection, in order
    mockWs            \* mock TTS: ws.readyState

orchVars == <<now, sessions, sessionTimeouts, roomDeletes, turns, goodbye, dispatch,
              preloading, channel, nextId, requests, sweepDue, op>>

llmVars == <<conversations, chats, chatOp>>

ttsVars == <<cacheFiles, writes, synths, synthCalls, firstAudio, ttsOp>>

webVars == <<clientNow, timeOffset, syncInitialized, preloadedImages, scheduledShows,
             timeouts, loading, currentBuffer, currentImageId, containers, animations,
             nextTimeoutId, schedOp>>

kioskVars == <<rendererNow, imageSync, rendererTimeouts, imageBuffers, rendererBuffer,
               kioskOp>>

resolverVars == <<imageLibrary, enriched>>

clientVars == <<webVars, kioskVars, resolverVars>>

broadcastVars == <<operatorUpdate>>

mockVars == <<mockNow, mockStream, mockTimeouts, mockSent, mockWs>>

restVars == <<broadcastVars, mockVars>>

serviceVars == <<llmVars, ttsVars, clientVars, restVars>>

vars == <<orchVars, serviceVars>>

---------------------------------------------------------------------------
(* Program constants *)

SESSION_TIMEOUT_MS == 600000
SESSION_CLEANUP_INTERVAL_MS == 60000
SESSION_RETENTION_MS == 3600000
SESSION_DURATION_SECONDS == 300
PRELOAD_LEAD_MS == 1500

LATE_TOLERANCE_MS == 100

(* Bounds of the model *)

MaxSessions == 1     \* sessions created in a run
MaxRequests == 2     \* requests received for existing sessions in a run
MaxEvents == 1       \* timeline events in one LLM reply
FineTicks == 1       \* cleanup intervals during which requests arrive on every tick

SessionIds == 1..MaxSessions
UnknownId == 1 - 1
ImageIds == {"parthenon"}
Offsets == {0, 2000}
ActionTypes == {"PRELOAD_IMAGE", "OTHER"}
NoTime == 0 - 1

Texts == {"Welcome to the museum."}

MaxMessages == 3     \* control messages the kiosk receives in a run
MaxClientTicks == 4  \* clock ticks of the kiosk page in a run

(* The kiosk clock moves in steps of half the late-show tolerance. *)
ClockTick == LATE_TOLERANCE_MS \div 2
KioskImages == ImageIds \cup {"acropolis"}
PlayoutTimes == {5000, 5100}
TtlValues == {0, 100}
Transitions == {"crossfade", "cut"}
Durations == {100, 200}
Buffers == {"a", "b"}
(* element.style.opacity before any script has written it *)
Unset == 0 - 1
CdnUrl(id) == "https://cdn.example/" \o id
Min2(a, b) == IF a <= b THEN a ELSE b

MaxCatalogue == 2    \* images in the library

(* Strings of the image library are sequences of characters. *)
EntryIds == {<<"a", "b">>, <<"b">>, <<"a", "_", "b">>}
EntryTitles == {<<>>, <<"a">>, <<"A", "B">>}
EntryKeywords == {<<>>, << <<"b">> >>}
LibraryImages ==
    [id : EntryIds, title : EntryTitles, keywords : EntryKeywords,
     cdn_url : {"https://cdn.example/library"}]
(* Libraries give every image an id of its own. *)
Libraries ==
    {lib \in UNION {[1..n -> LibraryImages] : n \in 0..MaxCatalogue} :
        \A i, j \in DOMAIN lib : lib[i].id = lib[j].id => i = j}
PayloadIds == EntryIds \cup {<<"c">>}

Max2(a, b) == IF a >= b THEN a ELSE b

Remove(f, k) == [x \in DOMAIN f \ {k} |-> f[x]]

Active(s) == s \in DOMAIN sessions /\ sessions[s].status = "active"
Ended(s) == s \in DOMAIN sessions /\ sessions[s].status = "ended"

(* An event of another action type arms no timer, whatever its offset. *)
TimelineEvents ==
    {e \in [time_offset_ms : Offsets, type : ActionTypes, id : ImageIds] :
        e.type # "PRELOAD_IMAGE" => e.time_offset_ms = 0}

Timelines ==
    UNION {[1..n -> TimelineEvents] : n \in 0..MaxEvents}

---------------------------------------------------------------------------
Init ==
    /\ now = 0
    /\ sessions = <<>>
    /\ sessionTimeouts = <<>>
    /\ roomDeletes = [s \in SessionIds |-> 0]
    /\ turns = {}
    /\ goodbye = [s \in SessionIds |-> 0]
    /\ dispatch = {}
    /\ preloading = {}
    /\ channel = [s \in SessionIds |-> <<>>]
    /\ nextId = 1
    /\ requests = 0
    /\ sweepDue = FALSE
    /\ op = [name |-> "start", sid |-> UnknownId, code |-> 0,
             audio_base64 |-> "", tts_error |-> "", images_scheduled |-> 0]
    /\ conversations = <<>>
    /\ chats = {}
    /\ chatOp = [name |-> "start", id |-> 0, code |-> 0]
    /\ cacheFiles = <<>>
    /\ writes = {}
    /\ synths = {}
    /\ synthCalls = [t \in Texts |-> 0]
    /\ firstAudio = [t \in Texts |-> <<>>]
    /\ ttsOp = [name |-> "start", id |-> 0, text |-> "", code |-> 0, audio |-> <<>>,
                received |-> 0]
    /\ clientNow = 0
    /\ timeOffset = {}
    /\ syncInitialized = FALSE
    /\ preloadedImages = <<>>
    /\ scheduledShows = <<>>
    /\ timeouts = {}
    /\ loading = {}
    /\ currentBuffer = "a"
    /\ currentImageId = ""
    /\ containers = [b \in Buffers |-> [backgroundImage |-> "", opacity |-> Unset]]
    /\ animations = {}
    /\ nextTimeoutId = 1
    /\ schedOp = [name |-> "start", id |-> "", delay |-> 0, branch |-> "",
                  received |-> 0]
    /\ rendererNow = 0
    /\ imageSync = [timeOffset |-> 0, scheduledImages |-> <<>>]
    /\ rendererTimeouts = {}
    /\ imageBuffers = [b \in 1..2 |-> [src |-> "", visible |-> FALSE, onload |-> 0]]
    /\ rendererBuffer = 1
    /\ kioskOp = [name |-> "start", id |-> "", delay |-> 0, received |-> 0,
                  synced |-> FALSE, timeouts |-> 0]
    /\ imageLibrary = [loaded |-> FALSE, images |-> <<>>]
    /\ operatorUpdate = {}
    /\ mockNow = 0
    /\ mockStream = [started |-> FALSE, interval |-> FALSE, frameId |-> 0,
                     mode |-> "normal", jitterMs |-> 0, due |-> 0]
    /\ mockTimeouts = {}
    /\ mockSent = <<>>
    /\ mockWs = "OPEN"
    /\ enriched = [called |-> FALSE, id |-> <<>>,
                   result |-> [id |-> <<>>, title |-> <<>>, keywords |-> <<>>,
                               cdn_url |-> ""]]

Ran(name, sid, code) ==
    op' = [name |-> name, sid |-> sid, code |-> code,
           audio_base64 |-> "", tts_error |-> "", images_scheduled |-> 0]

(* Requests arrive at whole multiples of the cleanup interval; the timers a
   request arms, and the LLM and TTS replies, fall at any instant. *)
Arrival == now % SESSION_CLEANUP_INTERVAL_MS = 0

(* A request for an existing session is counted; one answered 400 or 404 is not. *)
Accepted(session_id) ==
    /\ Arrival
    /\ IF session_id \in DOMAIN sessions
       THEN requests < MaxRequests /\ requests' = requests + 1
       ELSE requests' = requests

(* A refresh that leaves an armed timer running instead of replacing it. *)
refreshKeepsArmedTimer(session_id) ==
    [x \in DOMAIN sessionTimeouts \cup {session_id} |->
        IF x = session_id /\ ~(x \in DOMAIN sessionTimeouts /\ sessionTimeouts[x].pending)
        THEN [deadline |-> now + SESSION_TIMEOUT_MS, pending |-> TRUE]
        ELSE sessionTimeouts[x]]

(* refreshSessionTimeout: clear the existing timer, arm a new one. *)
refreshSessionTimeout(session_id) ==
    [x \in DOMAIN sessionTimeouts \cup {session_id} |->
        IF x = session_id
        THEN [deadline |-> now + SESSION_TIMEOUT_MS, pending |-> TRUE]
        ELSE sessionTimeouts[x]]

(* endSession: mark ended, clear the timer, delete the room (and with it the
   room's datachannel). *)
endSession(session_id, reason) ==
    IF session_id \notin DOMAIN sessions
    THEN UNCHANGED <<sessions, sessionTimeouts, roomDeletes, channel>>
    ELSE /\ sessions' = [sessions EXCEPT ![session_id].status = "ended",
                                         ![session_id].ended_at = now,
                                         ![session_id].end_reason = reason]
         /\ sessionTimeouts' = Remove(sessionTimeouts, session_id)
         /\ roomDeletes' = [roomDeletes EXCEPT ![session_id] = @ + 1]
         /\ channel' = [channel EXCEPT ![session_id] = <<>>]

(* POST /start_session *)
StartSession(kiosk_ok) ==
    /\ Arrival
    /\ UNCHANGED requests
    /\ nextId <= MaxSessions
    /\ IF ~kiosk_ok
       THEN /\ Ran("start_session", UnknownId, 400)
            /\ UNCHANGED <<sessions, sessionTimeouts, nextId>>
       ELSE /\ sessions' = [x \in DOMAIN sessions \cup {nextId} |->
                               IF x = nextId
                               THEN [created_at |-> now,
                                     duration_seconds |-> SESSION_DURATION_SECONDS,
                                     status |-> "active",
                                     last_activity |-> now,
                                     ended_at |-> NoTime,
                                     end_reason |-> "none"]
                               ELSE sessions[x]]
            /\ sessionTimeouts' = refreshSessionTimeout(nextId)
            /\ nextId' = nextId + 1
            /\ Ran("start_session", nextId, 200)
    /\ UNCHANGED <<now, roomDeletes, turns, goodbye, dispatch, preloading, channel,
                   sweepDue>>
    /\ UNCHANGED serviceVars

(* DELETE /session/:session_id *)
DeleteSession(session_id) ==
    /\ Accepted(session_id)
    /\ endSession(session_id, "manual")
    /\ Ran("delete_session", session_id,
           IF session_id \in DOMAIN sessions THEN 200 ELSE 404)
    /\ UNCHANGED <<now, turns, goodbye, dispatch, preloading, nextId, sweepDue>>
    /\ UNCHANGED serviceVars

(* Operator panel: { type: 'terminate_session', sessionId } *)
TerminateSession(session_id) ==
    /\ Accepted(session_id)
    /\ IF session_id \in DOMAIN sessions
       THEN endSession(session_id, "operator_terminated")
       ELSE UNCHANGED <<sessions, sessionTimeouts, roomDeletes, channel>>
    /\ Ran("terminate_session", session_id, 0)
    /\ UNCHANGED <<now, turns, goodbye, dispatch, preloading, nextId, sweepDue>>
    /\ UNCHANGED serviceVars

(* POST /session/:sessionId/end, up to the LLM call for the goodbye text *)
GoodbyeStart(session_id) ==
    /\ Accepted(session_id)
    /\ IF session_id \notin DOMAIN sessions
       THEN /\ Ran("goodbye", session_id, 404)
            /\ UNCHANGED goodbye
       ELSE /\ goodbye' = [goodbye EXCEPT ![session_id] = @ + 1]
            /\ Ran("goodbye", session_id, 0)
    /\ UNCHANGED <<now, sessions, sessionTimeouts, roomDeletes, turns, dispatch,
                   preloading, channel, nextId, sweepDue>>
    /\ UNCHANGED serviceVars

(* ... the LLM and the TTS have answered, or one of them failed and the catch
   block runs: respond, then end the session *)
GoodbyeFinish(session_id, llm_ok, tts_ok) ==
    /\ goodbye[session_id] > 0
    /\ goodbye' = [goodbye EXCEPT ![session_id] = @ - 1]
    /\ Ran("goodbye_end", session_id, 200)
    /\ endSession(session_id,
                  IF llm_ok /\ tts_ok THEN "timer_expired" ELSE "goodbye_error")
    /\ UNCHANGED <<now, turns, dispatch, preloading, nextId, requests, sweepDue>>
    /\ UNCHANGED serviceVars

(* A callback that ends the session with endSession's default reason. *)
TimeoutCallbackDefaultReason(session_id) ==
    IF Active(session_id)
    THEN endSession(session_id, "manual")
    ELSE /\ sessionTimeouts' = [sessionTimeouts EXCEPT ![session_id].pending = FALSE]
         /\ UNCHANGED <<sessions, roomDeletes, channel>>

(* The setTimeout callback armed by refreshSessionTimeout *)
TimeoutCallback(session_id) ==
    IF Active(session_id)
    THEN endSession(session_id, "timeout")
    ELSE /\ sessionTimeouts' = [sessionTimeouts EXCEPT ![session_id].pending = FALSE]
         /\ UNCHANGED <<sessions, roomDeletes, channel>>

TimeoutFire(session_id) ==
    /\ session_id \in DOMAIN sessionTimeouts
    /\ sessionTimeouts[session_id].pending
    /\ sessionTimeouts[session_id].deadline <= now
    /\ TimeoutCallback(session_id)
    /\ Ran("timeout", session_id, 0)
    /\ UNCHANGED <<now, turns, goodbye, dispatch, preloading, nextId, requests,
                   sweepDue>>
    /\ UNCHANGED serviceVars

(* A cleanup that removes every ended session, however recently it ended *)
SweepAllEnded ==
    /\ sweepDue
    /\ sweepDue' = FALSE
    /\ LET old == {s \in DOMAIN sessions : sessions[s].status = "ended"}
       IN sessions' = [x \in DOMAIN sessions \ old |-> sessions[x]]
    /\ Ran("sweep", UnknownId, 0)
    /\ UNCHANGED <<now, sessionTimeouts, roomDeletes, turns, goodbye, dispatch,
                   preloading, channel, nextId, requests>>
    /\ UNCHANGED serviceVars

(* startSessionCleanup: one run of the interval callback *)
Sweep ==
    /\ sweepDue
    /\ sweepDue' = FALSE
    /\ LET old == {s \in DOMAIN sessions :
                      /\ sessions[s].status = "ended"
                      /\ now - sessions[s].ended_at > SESSION_RETENTION_MS}
       IN sessions' = [x \in DOMAIN sessions \ old |-> sessions[x]]
    /\ Ran("sweep", UnknownId, 0)
    /\ UNCHANGED <<now, sessionTimeouts, roomDeletes, turns, goodbye, dispatch,
                   preloading, channel, nextId, requests>>
    /\ UNCHANGED serviceVars

(* POST /start_narration *)
StartNarration(session_id, valid) ==
    /\ Accepted(session_id)
    /\ IF ~valid \/ session_id \notin DOMAIN sessions
       THEN /\ Ran("start_narration", session_id, IF ~valid THEN 400 ELSE 404)
            /\ UNCHANGED <<sessions, sessionTimeouts>>
       ELSE /\ sessions' = [sessions EXCEPT ![session_id].last_activity = now]
            /\ sessionTimeouts' = refreshSessionTimeout(session_id)
            /\ Ran("start_narration", session_id, 200)
    /\ UNCHANGED <<now, roomDeletes, turns, goodbye, dispatch, preloading, channel,
                   nextId, sweepDue>>
    /\ UNCHANGED serviceVars

(* POST /converse, up to the LLM call *)
ConverseStart(session_id, valid) ==
    /\ Accepted(session_id)
    /\ IF ~valid \/ session_id \notin DOMAIN sessions
       THEN /\ Ran("converse", session_id, IF ~valid THEN 400 ELSE 404)
            /\ UNCHANGED <<sessions, sessionTimeouts, turns>>
       ELSE /\ sessions' = [sessions EXCEPT ![session_id].last_activity = now]
            /\ sessionTimeouts' = refreshSessionTimeout(session_id)
            /\ turns' = turns \cup {[id |-> requests + 1, sid |-> session_id,
                                     pc |-> "llm", started |-> now,
                                     events |-> <<>>, end_chat |-> FALSE]}
            /\ Ran("converse", session_id, 0)
    /\ UNCHANGED <<now, roomDeletes, goodbye, dispatch, preloading, channel, nextId,
                   sweepDue>>
    /\ UNCHANGED serviceVars

(* A catch block that also ends the session. *)
LlmFailureEndsSession(t) ==
    /\ turns' = turns \ {t}
    /\ Ran("llm_failed", t.sid, 500)
    /\ endSession(t.sid, "error")

(* ... the LLM call fails: the catch block answers 500 *)
LlmFailure(t) ==
    /\ turns' = turns \ {t}
    /\ Ran("llm_failed", t.sid, 500)
    /\ UNCHANGED <<sessions, sessionTimeouts, roomDeletes, channel>>

(* ... the LLM answers *)
LlmReply(t, ok, events, end_chat) ==
    /\ t \in turns
    /\ t.pc = "llm"
    /\ IF ok
       THEN /\ turns' = (turns \ {t}) \cup
                        {[t EXCEPT !.pc = "tts", !.events = events,
                                   !.end_chat = end_chat]}
            /\ Ran("llm_reply", t.sid, 0)
            /\ UNCHANGED <<sessions, sessionTimeouts, roomDeletes, channel>>
       ELSE LlmFailure(t)
    /\ UNCHANGED <<now, goodbye, dispatch, preloading, nextId, requests, sweepDue>>
    /\ UNCHANGED serviceVars

(* The two setTimeout calls of one timeline event, armed at speechStartTime = now *)
EventTimers(t, i) ==
    LET event == t.events[i]
        offset == event.time_offset_ms
        imagePlayoutTime == now + offset
        preloadOffset == Max2(0, offset - PRELOAD_LEAD_MS)
        timer(type, delay, seq) ==
            [turn |-> t.id, seq |-> seq, sid |-> t.sid, type |-> type,
             id |-> event.id, playout_ts |-> imagePlayoutTime,
             deadline |-> now + delay]
    IN IF event.type = "PRELOAD_IMAGE"
       THEN {timer("img_preload", preloadOffset, 2 * i - 1),
             timer("img_show", offset, 2 * i)}
       ELSE {}

(* sendImageControlMessage: the message reaches the room unless sendData throws,
   as it does when the room is gone *)
Delivered(room, sent) == sent /\ roomDeletes[room] = 0

sendImageControlMessage(room, type, id, playout_ts, sent) ==
    IF Delivered(room, sent)
    THEN [channel EXCEPT ![room] =
            Append(@, [type |-> type, id |-> id, playout_ts |-> playout_ts])]
    ELSE channel

(* A /converse whose TTS failure is not caught: the handler's outer catch
   answers 500 before anything is scheduled *)
TtsFailureFailsTurn(t, ok, sent) ==
    /\ t \in turns
    /\ t.pc = "tts"
    /\ dispatch' = IF ok
                   THEN dispatch \cup UNION {EventTimers(t, i) : i \in 1..Len(t.events)}
                   ELSE dispatch
    /\ channel' = IF t.end_chat /\ ok
                  THEN sendImageControlMessage(t.sid, "end_chat", "", now, sent)
                  ELSE channel
    /\ turns' = turns \ {t}
    /\ op' = [name |-> IF ok THEN "tts_reply" ELSE "tts_failed", sid |-> t.sid,
              code |-> IF ok THEN 200 ELSE 500,
              audio_base64 |-> IF ok THEN "UklGRg==" ELSE "", tts_error |-> "",
              images_scheduled |-> IF ok THEN Len(t.events) ELSE 0]
    /\ UNCHANGED <<now, sessions, sessionTimeouts, roomDeletes, goodbye, preloading,
                   nextId, requests, sweepDue>>
    /\ UNCHANGED serviceVars

(* ... the TTS answers, or fails (a non-2xx status, a refused connection or the
   10 s timeout of the fetch): the failure is caught into ttsError, the timeline
   is scheduled, end_chat is sent and the turn answers 200 with
   audio_base64 = '' and tts_error set *)
TtsReply(t, ok, sent) ==
    /\ t \in turns
    /\ t.pc = "tts"
    /\ dispatch' = dispatch \cup UNION {EventTimers(t, i) : i \in 1..Len(t.events)}
    /\ channel' = IF t.end_chat
                  THEN sendImageControlMessage(t.sid, "end_chat", "", now, sent)
                  ELSE channel
    /\ turns' = turns \ {t}
    /\ op' = [name |-> IF ok THEN "tts_reply" ELSE "tts_failed", sid |-> t.sid,
              code |-> 200,
              audio_base64 |-> IF ok THEN "UklGRg==" ELSE "",
              tts_error |-> IF ok THEN "" ELSE "TTS service returned 500",
              images_scheduled |-> Len(t.events)]
    /\ UNCHANGED <<now, sessions, sessionTimeouts, roomDeletes, goodbye, preloading,
                   nextId, requests, sweepDue>>
    /\ UNCHANGED serviceVars

(* Node runs the timers of one request in the order they were armed. *)
Due(d) ==
    /\ d \in dispatch
    /\ d.deadline <= now
    /\ \A e \in dispatch :
          (e.turn = d.turn /\ e.deadline <= now) => e.seq >= d.seq

(* The img_preload timer fires: the callback first awaits the ImageScreener *)
PreloadFire(d) ==
    /\ Due(d)
    /\ d.type = "img_preload"
    /\ dispatch' = dispatch \ {d}
    /\ preloading' = preloading \cup {d}
    /\ Ran("preload_timer", d.sid, 0)
    /\ UNCHANGED <<now, sessions, sessionTimeouts, roomDeletes, turns, goodbye,
                   channel, nextId, requests, sweepDue>>
    /\ UNCHANGED serviceVars

(* ... the ImageScreener answers or fails (preloadImage returns null): send *)
PreloadDone(d, screened, sent) ==
    /\ d \in preloading
    /\ preloading' = preloading \ {d}
    /\ channel' = sendImageControlMessage(d.sid, "img_preload", d.id, d.playout_ts,
                                          sent)
    /\ Ran(IF ~screened THEN "preload_failed"
           ELSE IF Delivered(d.sid, sent) THEN "img_preload" ELSE "send_failed",
           d.sid, 0)
    /\ UNCHANGED <<now, sessions, sessionTimeouts, roomDeletes, turns, goodbye,
                   dispatch, nextId, requests, sweepDue>>
    /\ UNCHANGED serviceVars

(* The img_show timer fires *)
ShowFire(d, sent) ==
    /\ Due(d)
    /\ d.type = "img_show"
    /\ dispatch' = dispatch \ {d}
    /\ channel' = sendImageControlMessage(d.sid, "img_show", d.id, d.playout_ts, sent)
    /\ Ran(IF Delivered(d.sid, sent) THEN "img_show" ELSE "send_failed", d.sid, 0)
    /\ UNCHANGED <<now, sessions, sessionTimeouts, roomDeletes, turns, goodbye,
                   preloading, nextId, requests, sweepDue>>
    /\ UNCHANGED serviceVars

(* The kiosk takes the next message off the datachannel of its room. *)
Receive(room) ==
    /\ channel[room] # <<>>
    /\ channel' = [channel EXCEPT ![room] = Tail(@)]
    /\ Ran("receive", room, 0)
    /\ UNCHANGED <<now, sessions, sessionTimeouts, roomDeletes, turns, goodbye,
                   dispatch, preloading, nextId, requests, sweepDue>>
    /\ UNCHANGED serviceVars

---------------------------------------------------------------------------
(* Passage of time *)

Deadlines ==
    {sessionTimeouts[s].deadline :
        s \in {x \in DOMAIN sessionTimeouts : sessionTimeouts[x].pending}}
    \cup {d.deadline : d \in dispatch}

NextCleanup == ((now \div SESSION_CLEANUP_INTERVAL_MS) + 1) * SESSION_CLEANUP_INTERVAL_MS

(* The first cleanup run that removes session s *)
RemovalTime(s) ==
    (((sessions[s].ended_at + SESSION_RETENTION_MS) \div SESSION_CLEANUP_INTERVAL_MS) + 1)
        * SESSION_CLEANUP_INTERVAL_MS

(* The instant the kiosk's countdown of duration_seconds reaches zero *)
DurationExpiry(s) == sessions[s].created_at + sessions[s].duration_seconds * 1000

(* Time stops at every timer deadline and at every cleanup run that removes a
   session; the cleanup runs in between remove nothing. Requests arrive on every
   cleanup tick during the first FineTicks intervals, and at these instants.
   The short calls (ImageScreener, sendData, the goodbye audio) return, and the
   datachannel delivers, in any order with the other handlers, before the clock
   moves. A turn may take any
   time: the wait for the LLM stands for the whole wait between the refresh and
   the scheduling, since the turn touches no shared state in between. *)
Advance(t) ==
    /\ ~sweepDue
    /\ preloading = {}
    /\ \A s \in SessionIds : goodbye[s] = 0 /\ channel[s] = <<>>
    /\ \A u \in turns : u.pc # "tts"
    /\ t > now
    /\ \A d \in Deadlines : now < d /\ t <= d
    /\ \A s \in DOMAIN sessions : Ended(s) => t <= RemovalTime(s)
    /\ now' = t
    /\ sweepDue' = (t % SESSION_CLEANUP_INTERVAL_MS = 0)
    /\ Ran("advance", UnknownId, 0)
    /\ UNCHANGED <<sessions, sessionTimeouts, roomDeletes, turns, goodbye, dispatch,
                   preloading, channel, nextId, requests>>
    /\ UNCHANGED serviceVars

Instants ==
    Deadlines
    \cup {RemovalTime(s) : s \in {x \in DOMAIN sessions : Ended(x)}}
    \cup {DurationExpiry(s) : s \in {x \in DOMAIN sessions : Active(x)}}
    \cup (IF now < FineTicks * SESSION_CLEANUP_INTERVAL_MS THEN {NextCleanup} ELSE {})

Next ==
    \/ \E kiosk_ok \in BOOLEAN : StartSession(kiosk_ok)
    \/ \E s \in SessionIds : DeleteSession(s)
    \/ \E s \in SessionIds : TerminateSession(s)
    \/ \E s \in SessionIds : GoodbyeStart(s)
    \/ \E s \in SessionIds, llm_ok \in BOOLEAN, tts_ok \in BOOLEAN :
          GoodbyeFinish(s, llm_ok, tts_ok)
    \/ \E s \in SessionIds, valid \in BOOLEAN : StartNarration(s, valid)
    \/ \E s \in SessionIds, valid \in BOOLEAN : ConverseStart(s, valid)
    \/ \E t \in turns, ok \in BOOLEAN, events \in Timelines, end_chat \in BOOLEAN :
          LlmReply(t, ok, events, end_chat)
    \/ \E t \in turns, ok \in BOOLEAN, sent \in BOOLEAN : TtsReply(t, ok, sent)
    \/ \E d \in dispatch : PreloadFire(d)
    \/ \E d \in preloading, screened \in BOOLEAN, sent \in BOOLEAN :
          PreloadDone(d, screened, sent)
    \/ \E d \in dispatch, sent \in BOOLEAN : ShowFire(d, sent)
    \/ \E s \in SessionIds : Receive(s)
    \/ \E s \in SessionIds : TimeoutFire(s)
    \/ Sweep
    \/ \E t \in Instants : Advance(t)

Spec == Init /\ [][Next]_vars

---------------------------------------------------------------------------
(* Orchestrator: the central loop that broadcasts the session timers *)

(* A remaining time computed without the clamp at zero *)
RemainingUnclamped(s) ==
    LET elapsedTime == now - sessions[s].created_at
    IN sessions[s].duration_seconds - (elapsedTime \div 1000)

Remaining(s) ==
    LET elapsedTime == now - sessions[s].created_at
    IN Max2(0, sessions[s].duration_seconds - (elapsedTime \div 1000))

(* One run of the setInterval(..., 1000) callback: the sessions_update message
   lists the active sessions; with none, no message is built *)
BroadcastTimers ==
    /\ now % 1000 = 0
    /\ operatorUpdate' =
          {[sessionId |-> s, remaining |-> Remaining(s)] :
              s \in {x \in DOMAIN sessions : sessions[x].status = "active"}}
    /\ Ran("sessions_update", UnknownId, 0)
    /\ UNCHANGED <<now, sessions, sessionTimeouts, roomDeletes, turns, goodbye,
                   dispatch, preloading, channel, nextId, requests, sweepDue>>
    /\ UNCHANGED <<llmVars, ttsVars, clientVars, mockVars>>

TimerNext ==
    \/ \E kiosk_ok \in BOOLEAN : StartSession(kiosk_ok)
    \/ \E s \in SessionIds : DeleteSession(s)
    \/ \E s \in SessionIds : TerminateSession(s)
    \/ \E s \in SessionIds : TimeoutFire(s)
    \/ Sweep
    \/ \E t \in Instants : Advance(t)
    \/ BroadcastTimers

TimerSpec == Init /\ [][TimerNext]_vars

(* setInterval keeps running the cleanup, the clock keeps moving and the
   inactivity timer fires when it is due. *)
FairTimerSpec ==
    /\ TimerSpec
    /\ WF_vars(Sweep)
    /\ WF_vars(\E t \in Instants : Advance(t))
    /\ \A s \in SessionIds : WF_vars(TimeoutFire(s))

---------------------------------------------------------------------------
(* LLM service (src/services/llm/src/index.js): the conversation store and the
   POST /chat handler, which the orchestrator's /converse calls once per turn
   without waiting for the session's previous turn. *)

MaxChats == 3        \* /chat requests received in a run

Messages == {"hello", "tell me more"}
Contents == {"speech"}

(* The array a handler holds is the one the map held when the request arrived:
   gen tells the arrays of one session apart. Every entry carries the request
   that pushed it. *)
History(session_id) ==
    IF session_id \in DOMAIN conversations
    THEN conversations[session_id].history
    ELSE <<>>

ChatRan(name, id, code) == chatOp' = [name |-> name, id |-> id, code |-> code]

ChatIds == {c.id : c \in chats} \cup {chatOp.id}

NextChatId == 1 + CHOOSE m \in ChatIds : \A x \in ChatIds : x <= m

(* POST /chat, up to the Ollama call: get or create the history, push the user
   message *)
ChatStart(session_id, message, valid) ==
    /\ NextChatId <= MaxChats
    /\ IF ~valid
       THEN /\ ChatRan("chat", NextChatId, 400)
            /\ UNCHANGED <<conversations, chats>>
       ELSE LET gen == IF session_id \in DOMAIN conversations
                       THEN conversations[session_id].gen
                       ELSE NextChatId
                pushed == Append(History(session_id),
                                 [role |-> "user", content |-> message,
                                  chat |-> NextChatId])
            IN /\ conversations' =
                     [x \in DOMAIN conversations \cup {session_id} |->
                        IF x = session_id
                        THEN [gen |-> gen, history |-> pushed]
                        ELSE conversations[x]]
               /\ chats' = chats \cup
                     {[id |-> NextChatId, sid |-> session_id, gen |-> gen,
                       message |-> message, before |-> History(session_id)]}
               /\ ChatRan("chat", NextChatId, 0)
    /\ UNCHANGED <<orchVars, ttsVars, clientVars, restVars>>

(* ... Ollama answers, or the call fails and the catch block answers 500. The
   push goes to the array the handler holds, which the map no longer holds
   after DELETE /conversation. *)
ChatReply(c, ok, content) ==
    /\ c \in chats
    /\ chats' = chats \ {c}
    /\ IF ok
       THEN LET held == c.sid \in DOMAIN conversations
                        /\ conversations[c.sid].gen = c.gen
                pushed == Append(History(c.sid),
                                 [role |-> "assistant", content |-> content,
                                  chat |-> c.id])
            IN /\ conversations' =
                     IF held
                     THEN [conversations EXCEPT ![c.sid].history = pushed]
                     ELSE conversations
               /\ ChatRan("chat_reply", c.id, 200)
       ELSE /\ ChatRan("chat_failed", c.id, 500)
            /\ UNCHANGED conversations
    /\ UNCHANGED <<orchVars, ttsVars, clientVars, restVars>>

(* DELETE /conversation/:session_id *)
ClearConversation(session_id) ==
    /\ session_id \in DOMAIN conversations
    /\ conversations' = Remove(conversations, session_id)
    /\ ChatRan("clear", chatOp.id, 200)
    /\ UNCHANGED chats
    /\ UNCHANGED <<orchVars, ttsVars, clientVars, restVars>>

ChatNext ==
    \/ \E s \in SessionIds, message \in Messages, valid \in BOOLEAN :
          ChatStart(s, message, valid)
    \/ \E c \in chats, ok \in BOOLEAN, content \in Contents : ChatReply(c, ok, content)
    \/ \E s \in SessionIds : ClearConversation(s)

ChatSpec == Init /\ [][ChatNext]_vars

(* The orchestrator and the LLM service together: /converse posts the message
   of an active session to /chat under the session's id; nothing in the
   orchestrator calls DELETE /conversation, which stays open to other callers.
   The sessions are ended by request; the clock stands still. *)
ConverseCallsLlm(session_id, message) ==
    /\ Active(session_id)
    /\ ChatStart(session_id, message, TRUE)

HistoryNext ==
    \/ \E kiosk_ok \in BOOLEAN : StartSession(kiosk_ok)
    \/ \E s \in SessionIds : DeleteSession(s)
    \/ \E s \in SessionIds : TerminateSession(s)
    \/ \E s \in SessionIds, message \in Messages : ConverseCallsLlm(s, message)
    \/ \E c \in chats, ok \in BOOLEAN, content \in Contents : ChatReply(c, ok, content)
    \/ \E s \in SessionIds : ClearConversation(s)

HistorySpec == Init /\ [][HistoryNext]_vars

---------------------------------------------------------------------------
(* TTS service: the file cache and synthesizeText of
   src/services/real-tts/src/index.js, and POST /synthesize of the service's
   later version (src/unnamed/part_009), which the orchestrator calls. *)

MaxSynths == 3       \* synthesis requests received in a run
AudioChunks == 2     \* chunks of the audio of a text

(* The synthesiser is deterministic: the audio is a function of the text. *)
AudioOf(text) == [i \in 1..AudioChunks |-> <<text, i>>]

Prefix(audio, n) == SubSeq(audio, 1, n)

(* ttsOp.received counts the requests received so far; ids are minted from it. *)
TtsRan(name, id, text, code, audio) ==
    ttsOp' = [name |-> name, id |-> id, text |-> text, code |-> code, audio |-> audio,
              received |-> IF id > ttsOp.received THEN id ELSE ttsOp.received]

NextSynthId == ttsOp.received + 1

(* A response with audio: remember the first one of each text. *)
Responded(text, audio) ==
    firstAudio' = IF firstAudio[text] = <<>>
                  THEN [firstAudio EXCEPT ![text] = audio]
                  ELSE firstAudio

(* loadFromCache: the file's bytes if the file exists, else null. *)
hasCachedAudio(text) == text \in DOMAIN cacheFiles

loadFromCache(text) == cacheFiles[text]

(* synthesizeText: a synthesize_text message on the WebSocket *)
SynthesizeText(text, valid) ==
    /\ NextSynthId <= MaxSynths
    /\ IF ~valid
       THEN /\ TtsRan("error", NextSynthId, "", 0, <<>>)
            /\ UNCHANGED <<synths, synthCalls, firstAudio>>
       ELSE IF hasCachedAudio(text)
       THEN /\ TtsRan("cache_hit", NextSynthId, text, 200, loadFromCache(text))
            /\ Responded(text, loadFromCache(text))
            /\ UNCHANGED <<synths, synthCalls>>
       ELSE /\ synths' = synths \cup {[id |-> NextSynthId, text |-> text, kind |-> "ws",
                                       produced |-> 0, pushed |-> 0, open |-> TRUE]}
            /\ synthCalls' = [synthCalls EXCEPT ![text] = @ + 1]
            /\ TtsRan("synth_start", NextSynthId, text, 0, <<>>)
            /\ UNCHANGED firstAudio
    /\ UNCHANGED <<cacheFiles, writes>>
    /\ UNCHANGED <<orchVars, llmVars, clientVars, restVars>>

(* audioStream.on('data'): push the chunk and send it, unless the socket is
   closed *)
SynthData(j) ==
    /\ j \in synths
    /\ j.kind = "ws"
    /\ j.produced < AudioChunks
    /\ synths' = (synths \ {j}) \cup
                 {[j EXCEPT !.produced = @ + 1,
                            !.pushed = IF j.open THEN @ + 1 ELSE @]}
    /\ TtsRan("audio_frame", j.id, j.text, 0, <<>>)
    /\ UNCHANGED <<cacheFiles, writes, synthCalls, firstAudio>>
    /\ UNCHANGED <<orchVars, llmVars, clientVars, restVars>>

(* The client closes the socket while the audio is streamed. *)
WsClose(j) ==
    /\ j \in synths
    /\ j.kind = "ws"
    /\ j.open
    /\ synths' = (synths \ {j}) \cup {[j EXCEPT !.open = FALSE]}
    /\ TtsRan("ws_close", j.id, j.text, 0, <<>>)
    /\ UNCHANGED <<cacheFiles, writes, synthCalls, firstAudio>>
    /\ UNCHANGED <<orchVars, llmVars, clientVars, restVars>>

(* audioStream.on('end'): saveToCacheAsync starts fs.writeFile on the pushed
   chunks, and end_of_stream completes the response *)
SynthEnd(j) ==
    /\ j \in synths
    /\ j.kind = "ws"
    /\ j.produced = AudioChunks
    /\ synths' = synths \ {j}
    /\ writes' = IF j.pushed > 0
                 THEN writes \cup {[id |-> j.id, text |-> j.text,
                                    data |-> Prefix(AudioOf(j.text), j.pushed),
                                    opened |-> FALSE, written |-> 0]}
                 ELSE writes
    /\ IF j.open
       THEN /\ TtsRan("end_of_stream", j.id, j.text, 200, Prefix(AudioOf(j.text), j.pushed))
            /\ Responded(j.text, Prefix(AudioOf(j.text), j.pushed))
       ELSE /\ TtsRan("end_of_stream", j.id, j.text, 0, <<>>)
            /\ UNCHANGED firstAudio
    /\ UNCHANGED <<cacheFiles, synthCalls>>
    /\ UNCHANGED <<orchVars, llmVars, clientVars, restVars>>

(* fs.writeFile(cachePath, audioBuffer): open the file at its final path,
   truncating it ... *)
WriteOpen(w) ==
    /\ w \in writes
    /\ ~w.opened
    /\ writes' = (writes \ {w}) \cup {[w EXCEPT !.opened = TRUE]}
    /\ cacheFiles' = [x \in DOMAIN cacheFiles \cup {w.text} |->
                         IF x = w.text THEN <<>> ELSE cacheFiles[x]]
    /\ TtsRan("write_open", w.id, w.text, 0, <<>>)
    /\ UNCHANGED <<synths, synthCalls, firstAudio>>
    /\ UNCHANGED <<orchVars, llmVars, clientVars, restVars>>

(* ... then write the buffer at the descriptor's position; the call is over
   with the last chunk *)
WriteChunk(w) ==
    /\ w \in writes
    /\ w.opened
    /\ LET pos == w.written + 1
           file == cacheFiles[w.text]
           size == Max2(Len(file), pos)
       IN cacheFiles' = [cacheFiles EXCEPT ![w.text] =
              [i \in 1..size |-> IF i = pos THEN w.data[pos]
                                 ELSE IF i <= Len(file) THEN file[i]
                                 ELSE <<"", 0>>]]
    /\ writes' = IF w.written + 1 = Len(w.data)
                 THEN writes \ {w}
                 ELSE (writes \ {w}) \cup {[w EXCEPT !.written = @ + 1]}
    /\ TtsRan("write", w.id, w.text, 0, <<>>)
    /\ UNCHANGED <<synths, synthCalls, firstAudio>>
    /\ UNCHANGED <<orchVars, llmVars, clientVars, restVars>>

(* POST /synthesize, up to the provider call: no cache lookup *)
Synthesize(text, valid) ==
    /\ NextSynthId <= MaxSynths
    /\ IF ~valid
       THEN /\ TtsRan("synthesize", NextSynthId, "", 400, <<>>)
            /\ UNCHANGED <<synths, synthCalls>>
       ELSE /\ synths' = synths \cup {[id |-> NextSynthId, text |-> text, kind |-> "http",
                                       produced |-> 0, pushed |-> 0, open |-> TRUE]}
            /\ synthCalls' = [synthCalls EXCEPT ![text] = @ + 1]
            /\ TtsRan("synthesize", NextSynthId, text, 0, <<>>)
    /\ UNCHANGED <<cacheFiles, writes, firstAudio>>
    /\ UNCHANGED <<orchVars, llmVars, clientVars, restVars>>

(* ... the provider answers and the MP3 is sent, or every provider failed: 500 *)
SynthesizeDone(j, ok) ==
    /\ j \in synths
    /\ j.kind = "http"
    /\ synths' = synths \ {j}
    /\ IF ok
       THEN /\ TtsRan("synthesized", j.id, j.text, 200, AudioOf(j.text))
            /\ Responded(j.text, AudioOf(j.text))
       ELSE /\ TtsRan("synthesized", j.id, j.text, 500, <<>>)
            /\ UNCHANGED firstAudio
    /\ UNCHANGED <<cacheFiles, writes, synthCalls>>
    /\ UNCHANGED <<orchVars, llmVars, clientVars, restVars>>

TtsNext ==
    \/ \E text \in Texts, valid \in BOOLEAN : SynthesizeText(text, valid)
    \/ \E j \in synths : SynthData(j)
    \/ \E j \in synths : WsClose(j)
    \/ \E j \in synths : SynthEnd(j)
    \/ \E w \in writes : WriteOpen(w)
    \/ \E w \in writes : WriteChunk(w)
    \/ \E text \in Texts, valid \in BOOLEAN : Synthesize(text, valid)
    \/ \E j \in synths, ok \in BOOLEAN : SynthesizeDone(j, ok)

TtsSpec == Init /\ [][TtsNext]_vars

---------------------------------------------------------------------------
(* Web kiosk: ImageScheduler (frontend/kiosk/src/image-scheduler.js) *)

SchedRan(name, id, delay, branch, n) ==
    schedOp' = [name |-> name, id |-> id, delay |-> delay, branch |-> branch,
                received |-> schedOp.received + n]

initializeSync(serverPlayoutTs) ==
    IF syncInitialized
    THEN UNCHANGED <<timeOffset, syncInitialized>>
    ELSE /\ timeOffset' = {serverPlayoutTs - clientNow}
         /\ syncInitialized' = TRUE

(* "Initialize sync on first message with playout_ts" *)
SyncOnFirstMessage(playout_ts) ==
    IF ~syncInitialized /\ playout_ts # 0
    THEN initializeSync(playout_ts)
    ELSE UNCHANGED <<timeOffset, syncInitialized>>

(* Evaluated after SyncOnFirstMessage, on the offset it left *)
convertToLocalTime(serverPlayoutTs) ==
    IF ~syncInitialized'
    THEN clientNow
    ELSE serverPlayoutTs - (CHOOSE o \in timeOffset' : TRUE)

(* img_preload: preload() up to its await of the image load *)
Preload(id, playout_ts, ttl_ms) ==
    /\ schedOp.received < MaxMessages
    /\ SyncOnFirstMessage(playout_ts)
    /\ loading' = loading \cup
          {[n |-> schedOp.received + 1, id |-> id, cdn_url |-> CdnUrl(id),
            ttl_ms |-> ttl_ms]}
    /\ SchedRan("img_preload", id, 0, "", 1)
    /\ UNCHANGED <<clientNow, preloadedImages, scheduledShows, timeouts, currentBuffer,
                   currentImageId, containers, animations, nextTimeoutId>>
    /\ UNCHANGED <<orchVars, llmVars, ttsVars, kioskVars, resolverVars, restVars>>

(* img.onload: store the image and arm its TTL cleanup *)
ImageLoaded(l) ==
    /\ l \in loading
    /\ loading' = loading \ {l}
    /\ preloadedImages' =
          (l.id :> [url |-> l.cdn_url, loadedAt |-> clientNow]) @@ preloadedImages
    /\ IF l.ttl_ms # 0
       THEN /\ timeouts' = timeouts \cup
                  {[timeoutId |-> nextTimeoutId, kind |-> "ttl", id |-> l.id,
                    transition |-> "", duration_ms |-> 0,
                    armedAt |-> clientNow, deadline |-> clientNow + l.ttl_ms]}
            /\ nextTimeoutId' = nextTimeoutId + 1
       ELSE UNCHANGED <<timeouts, nextTimeoutId>>
    /\ SchedRan("image_loaded", l.id, 0, "", 0)
    /\ UNCHANGED <<clientNow, timeOffset, syncInitialized, scheduledShows,
                   currentBuffer, currentImageId, containers, animations>>
    /\ UNCHANGED <<orchVars, llmVars, ttsVars, kioskVars, resolverVars, restVars>>

(* img.onerror: the catch block logs and stores nothing *)
ImageError(l) ==
    /\ l \in loading
    /\ loading' = loading \ {l}
    /\ SchedRan("preload_error", l.id, 0, "", 0)
    /\ UNCHANGED <<clientNow, timeOffset, syncInitialized, preloadedImages,
                   scheduledShows, timeouts, currentBuffer, currentImageId, containers,
                   animations, nextTimeoutId>>
    /\ UNCHANGED <<orchVars, llmVars, ttsVars, kioskVars, resolverVars, restVars>>

(* The TTL cleanup fires: it deletes whatever the store holds under the id *)
TtlTimeout(t) ==
    /\ t \in timeouts
    /\ t.kind = "ttl"
    /\ t.deadline <= clientNow
    /\ timeouts' = timeouts \ {t}
    /\ preloadedImages' = Remove(preloadedImages, t.id)
    /\ SchedRan("ttl_timer", t.id, 0, "", 0)
    /\ UNCHANGED <<clientNow, timeOffset, syncInitialized, scheduledShows, loading,
                   currentBuffer, currentImageId, containers, animations,
                   nextTimeoutId>>
    /\ UNCHANGED <<orchVars, llmVars, ttsVars, kioskVars, resolverVars, restVars>>

(* crossfade(): requests the first frame of animate. seq is the place of the
   callback in the browser's list of frame callbacks, ran the instant of its
   last run *)
crossfade(fromEl, toEl, duration_ms) ==
    LET seqs == {x.seq : x \in animations}
        last == IF seqs = {} THEN 0 ELSE CHOOSE m \in seqs : \A n \in seqs : n <= m
    IN animations' = animations \cup
          {[from |-> fromEl, to |-> toEl, startTime |-> clientNow,
            duration_ms |-> duration_ms, seq |-> last + 1, ran |-> NoTime]}

(* A frame runs the requested callbacks in the order they were requested: a
   callback runs once those requested before it have run at this instant. *)
FrameOrder(x) ==
    \A y \in animations : y.seq < x.seq => y.ran = clientNow

showImage(id, transition, duration_ms) ==
    IF id \notin DOMAIN preloadedImages
    THEN UNCHANGED <<currentBuffer, currentImageId, containers, animations>>
    ELSE LET nextBuffer == IF currentBuffer = "a" THEN "b" ELSE "a"
             url == preloadedImages[id].url
         IN /\ IF transition = "crossfade"
               THEN /\ containers' =
                          [containers EXCEPT ![nextBuffer].backgroundImage = url]
                    /\ crossfade(currentBuffer, nextBuffer, duration_ms)
               ELSE /\ containers' =
                          [containers EXCEPT
                              ![nextBuffer] = [backgroundImage |-> url, opacity |-> 100],
                              ![currentBuffer].opacity = 0]
                    /\ UNCHANGED animations
            /\ currentBuffer' = nextBuffer
            /\ currentImageId' = id

(* What showImage does with the id: display it, or return at "Image not preloaded" *)
Outcome(id, branch) ==
    IF branch = "skipped" THEN "skipped"
    ELSE IF branch = "scheduled" THEN "scheduled"
    ELSE IF id \in DOMAIN preloadedImages THEN "shown" ELSE "not_preloaded"

(* img_show: scheduleShow() *)
ScheduleShow(id, playout_ts, transition, duration_ms) ==
    /\ schedOp.received < MaxMessages
    /\ SyncOnFirstMessage(playout_ts)
    /\ LET localPlayoutTime == convertToLocalTime(playout_ts)
           delay == localPlayoutTime - clientNow
       IN IF delay > 0
          THEN /\ timeouts' = timeouts \cup
                     {[timeoutId |-> nextTimeoutId, kind |-> "show", id |-> id,
                       transition |-> transition, duration_ms |-> duration_ms,
                       armedAt |-> clientNow, deadline |-> clientNow + delay]}
               /\ nextTimeoutId' = nextTimeoutId + 1
               /\ scheduledShows' =
                     Append(scheduledShows, [id |-> id, timeoutId |-> nextTimeoutId])
               /\ SchedRan("img_show", id, delay, Outcome(id, "scheduled"), 1)
               /\ UNCHANGED <<currentBuffer, currentImageId, containers, animations>>
          ELSE IF delay > 0 - LATE_TOLERANCE_MS
          THEN /\ showImage(id, transition, duration_ms)
               /\ SchedRan("img_show", id, delay, Outcome(id, "immediate"), 1)
               /\ UNCHANGED <<timeouts, nextTimeoutId, scheduledShows>>
          ELSE /\ SchedRan("img_show", id, delay, Outcome(id, "skipped"), 1)
               /\ UNCHANGED <<timeouts, nextTimeoutId, scheduledShows, currentBuffer,
                              currentImageId, containers, animations>>
    /\ UNCHANGED <<clientNow, preloadedImages, loading>>
    /\ UNCHANGED <<orchVars, llmVars, ttsVars, kioskVars, resolverVars, restVars>>

(* The timer of a scheduled show fires: showImage() *)
ShowTimeout(t) ==
    /\ t \in timeouts
    /\ t.kind = "show"
    /\ t.deadline <= clientNow
    /\ timeouts' = timeouts \ {t}
    /\ showImage(t.id, t.transition, t.duration_ms)
    /\ SchedRan("show_timer", t.id, clientNow - t.deadline, Outcome(t.id, "timer"), 0)
    /\ UNCHANGED <<clientNow, timeOffset, syncInitialized, preloadedImages,
                   scheduledShows, loading, nextTimeoutId>>
    /\ UNCHANGED <<orchVars, llmVars, ttsVars, kioskVars, resolverVars, restVars>>

(* An animate callback that fades the target in and never touches the source *)
AnimationFrameTargetOnly(x) ==
    /\ x \in animations
    /\ FrameOrder(x)
    /\ LET elapsed == clientNow - x.startTime
           progress == Min2((elapsed * 100) \div x.duration_ms, 100)
       IN /\ containers' = [containers EXCEPT ![x.to].opacity = progress]
          /\ animations' = IF progress < 100
                           THEN (animations \ {x}) \cup {[x EXCEPT !.ran = clientNow]}
                           ELSE animations \ {x}
          /\ SchedRan("frame", "", 0, IF progress < 100 THEN "running" ELSE "complete", 0)
    /\ UNCHANGED <<clientNow, timeOffset, syncInitialized, preloadedImages,
                   scheduledShows, timeouts, loading, currentBuffer, currentImageId,
                   nextTimeoutId>>
    /\ UNCHANGED <<orchVars, llmVars, ttsVars, kioskVars, resolverVars, restVars>>

(* One requestAnimationFrame callback of a crossfade; opacities in percent *)
AnimationFrame(x) ==
    /\ x \in animations
    /\ FrameOrder(x)
    /\ LET elapsed == clientNow - x.startTime
           progress == Min2((elapsed * 100) \div x.duration_ms, 100)
       IN /\ containers' = [containers EXCEPT ![x.from].opacity = 100 - progress,
                                               ![x.to].opacity = progress]
          /\ animations' = IF progress < 100
                           THEN (animations \ {x}) \cup {[x EXCEPT !.ran = clientNow]}
                           ELSE animations \ {x}
          /\ SchedRan("frame", "", 0, IF progress < 100 THEN "running" ELSE "complete", 0)
    /\ UNCHANGED <<clientNow, timeOffset, syncInitialized, preloadedImages,
                   scheduledShows, timeouts, loading, currentBuffer, currentImageId,
                   nextTimeoutId>>
    /\ UNCHANGED <<orchVars, llmVars, ttsVars, kioskVars, resolverVars, restVars>>

clearScheduled ==
    /\ timeouts' = {t \in timeouts :
                      \A i \in 1..Len(scheduledShows) :
                          scheduledShows[i].timeoutId # t.timeoutId}
    /\ scheduledShows' = <<>>

ClearScheduled ==
    /\ clearScheduled
    /\ SchedRan("clear_scheduled", "", 0, "", 0)
    /\ UNCHANGED <<clientNow, timeOffset, syncInitialized, preloadedImages, loading,
                   currentBuffer, currentImageId, containers, animations,
                   nextTimeoutId>>
    /\ UNCHANGED <<orchVars, llmVars, ttsVars, kioskVars, resolverVars, restVars>>

(* A resetSync that forgets the offset and leaves the scheduled shows alone *)
resetSyncKeepsShows ==
    /\ timeOffset' = {}
    /\ syncInitialized' = FALSE
    /\ UNCHANGED <<timeouts, scheduledShows>>

resetSync ==
    /\ timeOffset' = {}
    /\ syncInitialized' = FALSE
    /\ clearScheduled

ResetSync ==
    /\ resetSync
    /\ SchedRan("reset_sync", "", 0,
                IF scheduledShows # <<>> THEN "cleared" ELSE "", 0)
    /\ UNCHANGED <<clientNow, preloadedImages, loading, currentBuffer, currentImageId,
                   containers, animations, nextTimeoutId>>
    /\ UNCHANGED <<orchVars, llmVars, ttsVars, kioskVars, resolverVars, restVars>>

(* The page's clock moves on once every due timer has run. *)
ClientTick ==
    /\ clientNow < MaxClientTicks * ClockTick
    /\ \A t \in timeouts : t.deadline > clientNow
    /\ clientNow' = clientNow + ClockTick
    /\ SchedRan("tick", "", 0, "", 0)
    /\ UNCHANGED <<timeOffset, syncInitialized, preloadedImages, scheduledShows,
                   timeouts, loading, currentBuffer, currentImageId, containers,
                   animations, nextTimeoutId>>
    /\ UNCHANGED <<orchVars, llmVars, ttsVars, kioskVars, resolverVars, restVars>>

SchedulerNext ==
    \/ \E id \in KioskImages, ts \in PlayoutTimes, ttl \in TtlValues :
          Preload(id, ts, ttl)
    \/ \E l \in loading : ImageLoaded(l)
    \/ \E l \in loading : ImageError(l)
    \/ \E t \in timeouts : TtlTimeout(t)
    \/ \E id \in KioskImages, ts \in PlayoutTimes, tr \in Transitions, d \in Durations :
          ScheduleShow(id, ts, tr, d)
    \/ \E t \in timeouts : ShowTimeout(t)
    \/ \E x \in animations : AnimationFrame(x)
    \/ ClearScheduled
    \/ ResetSync
    \/ ClientTick

SchedulerSpec == Init /\ [][SchedulerNext]_vars

---------------------------------------------------------------------------
(* Electron kiosk: imageSync (kiosk-electron/renderer/js/active.js) *)

KioskRan(name, id, delay, n, synced, armed) ==
    kioskOp' = [name |-> name, id |-> id, delay |-> delay,
                received |-> kioskOp.received + n,
                synced |-> kioskOp.synced \/ synced,
                timeouts |-> kioskOp.timeouts + armed]

(* 'time_sync': imageSync.setTimeOffset(message.server_time) *)
setTimeOffset(serverTime) ==
    /\ kioskOp.received < MaxMessages
    /\ imageSync' = [imageSync EXCEPT !.timeOffset = serverTime - rendererNow]
    /\ KioskRan("time_sync", "", 0, 1, TRUE, 0)
    /\ UNCHANGED <<rendererNow, rendererTimeouts, imageBuffers, rendererBuffer>>
    /\ UNCHANGED <<orchVars, llmVars, ttsVars, webVars, resolverVars, restVars>>

(* 'img_preload': a new Image() that nothing keeps *)
KioskPreload(id) ==
    /\ kioskOp.received < MaxMessages
    /\ KioskRan("img_preload", id, 0, 1, FALSE, 0)
    /\ UNCHANGED <<rendererNow, imageSync, rendererTimeouts, imageBuffers,
                   rendererBuffer>>
    /\ UNCHANGED <<orchVars, llmVars, ttsVars, webVars, resolverVars, restVars>>

(* imageSync.showImage: the inactive buffer starts loading; its onload handler
   closes over the buffer that is active now *)
kioskShowImage(id) ==
    LET inactive == IF rendererBuffer = 1 THEN 2 ELSE 1
    IN imageBuffers' =
          [imageBuffers EXCEPT ![inactive].src = CdnUrl(id),
                               ![inactive].onload = rendererBuffer]

(* 'img_show': imageSync.scheduleImage(message, message.playout_ts) *)
scheduleImage(id, playoutTs) ==
    /\ kioskOp.received < MaxMessages
    /\ LET localPlayoutTime == playoutTs - imageSync.timeOffset
           delayMs == localPlayoutTime - rendererNow
       IN IF delayMs > 0 - LATE_TOLERANCE_MS
          THEN /\ rendererTimeouts' = rendererTimeouts \cup
                     {[timeoutId |-> kioskOp.timeouts + 1, id |-> id,
                       deadline |-> rendererNow + Max2(0, delayMs)]}
               /\ imageSync' =
                     [imageSync EXCEPT !.scheduledImages =
                         (id :> (kioskOp.timeouts + 1)) @@ @]
               /\ KioskRan("img_show", id, delayMs, 1, FALSE, 1)
               /\ UNCHANGED imageBuffers
          ELSE /\ kioskShowImage(id)
               /\ KioskRan("img_show", id, delayMs, 1, FALSE, 0)
               /\ UNCHANGED <<rendererTimeouts, imageSync>>
    /\ UNCHANGED <<rendererNow, rendererBuffer>>
    /\ UNCHANGED <<orchVars, llmVars, ttsVars, webVars, resolverVars, restVars>>

(* The timer of a scheduled image fires: showImage *)
KioskShowTimeout(t) ==
    /\ t \in rendererTimeouts
    /\ t.deadline <= rendererNow
    /\ rendererTimeouts' = rendererTimeouts \ {t}
    /\ kioskShowImage(t.id)
    /\ KioskRan("show_timer", t.id, 0, 0, FALSE, 0)
    /\ UNCHANGED <<rendererNow, imageSync, rendererBuffer>>
    /\ UNCHANGED <<orchVars, llmVars, ttsVars, webVars, resolverVars, restVars>>

(* The load event of a buffer: swap the 'visible' class and the buffers *)
BufferLoaded(b) ==
    /\ imageBuffers[b].onload # 0
    /\ imageBuffers' =
          [imageBuffers EXCEPT ![imageBuffers[b].onload].visible = FALSE,
                               ![b] = [src |-> imageBuffers[b].src,
                                       visible |-> TRUE, onload |-> 0]]
    /\ rendererBuffer' = IF rendererBuffer = 1 THEN 2 ELSE 1
    /\ KioskRan("loaded", "", 0, 0, FALSE, 0)
    /\ UNCHANGED <<rendererNow, imageSync, rendererTimeouts>>
    /\ UNCHANGED <<orchVars, llmVars, ttsVars, webVars, resolverVars, restVars>>

(* The image fails to load: onload never runs *)
BufferError(b) ==
    /\ imageBuffers[b].onload # 0
    /\ imageBuffers' = [imageBuffers EXCEPT ![b].onload = 0]
    /\ KioskRan("load_error", "", 0, 0, FALSE, 0)
    /\ UNCHANGED <<rendererNow, imageSync, rendererTimeouts, rendererBuffer>>
    /\ UNCHANGED <<orchVars, llmVars, ttsVars, webVars, resolverVars, restVars>>

(* beforeunload: imageSync.clear() *)
KioskClear ==
    /\ rendererTimeouts' =
          {t \in rendererTimeouts :
              \A id \in DOMAIN imageSync.scheduledImages :
                  imageSync.scheduledImages[id] # t.timeoutId}
    /\ imageSync' = [imageSync EXCEPT !.scheduledImages = <<>>]
    /\ KioskRan("clear", "", 0, 0, FALSE, 0)
    /\ UNCHANGED <<rendererNow, imageBuffers, rendererBuffer>>
    /\ UNCHANGED <<orchVars, llmVars, ttsVars, webVars, resolverVars, restVars>>

KioskTick ==
    /\ rendererNow < MaxClientTicks * ClockTick
    /\ \A t \in rendererTimeouts : t.deadline > rendererNow
    /\ rendererNow' = rendererNow + ClockTick
    /\ KioskRan("tick", "", 0, 0, FALSE, 0)
    /\ UNCHANGED <<imageSync, rendererTimeouts, imageBuffers, rendererBuffer>>
    /\ UNCHANGED <<orchVars, llmVars, ttsVars, webVars, resolverVars, restVars>>

KioskNext ==
    \/ \E ts \in PlayoutTimes : setTimeOffset(ts)
    \/ \E id \in KioskImages : KioskPreload(id)
    \/ \E id \in KioskImages, ts \in PlayoutTimes : scheduleImage(id, ts)
    \/ \E t \in rendererTimeouts : KioskShowTimeout(t)
    \/ \E b \in 1..2 : BufferLoaded(b)
    \/ \E b \in 1..2 : BufferError(b)
    \/ KioskClear
    \/ KioskTick

KioskSpec == Init /\ [][KioskNext]_vars

---------------------------------------------------------------------------
(* Orchestrator: the image resolver (enrichImagePayload) *)

toLowerCase(str) ==
    [i \in DOMAIN str |->
        IF str[i] = "A" THEN "a" ELSE IF str[i] = "B" THEN "b" ELSE str[i]]

(* id.split('_').join(' ') *)
SplitJoin(str) == [i \in DOMAIN str |-> IF str[i] = "_" THEN " " ELSE str[i]]

(* String.prototype.includes: needle occurs in hay as a substring *)
includes(hay, needle) ==
    \E k \in 0..(Len(hay) - Len(needle)) :
        \A i \in 1..Len(needle) : hay[k + i] = needle[i]

Score(image, searchTerms) ==
    LET hits == {k \in DOMAIN image.keywords :
                    includes(searchTerms, toLowerCase(image.keywords[k]))}
        byKeywords == 10 * Cardinality(hits)
        byTitle == IF image.title # <<>>
                      /\ includes(searchTerms, toLowerCase(image.title))
                   THEN 20 ELSE 0
        byId == IF image.id # <<>> /\ includes(searchTerms, toLowerCase(image.id))
                THEN 30 ELSE 0
    IN byKeywords + byTitle + byId

(* The loop over allImages: index of bestMatch after the first n images, 0 for
   null; a later image replaces it only on a strictly greater score *)
RECURSIVE BestMatch(_, _, _)
BestMatch(allImages, searchTerms, n) ==
    IF n = 0 THEN 0
    ELSE LET best == BestMatch(allImages, searchTerms, n - 1)
             bestScore == IF best = 0 THEN 0 ELSE Score(allImages[best], searchTerms)
         IN IF Score(allImages[n], searchTerms) > bestScore THEN n ELSE best

enrichImagePayload(llmPayload) ==
    LET searchTerms == SplitJoin(toLowerCase(llmPayload.id))
        allImages == imageLibrary.images
        bestMatch == BestMatch(allImages, searchTerms, Len(allImages))
    IN IF ~imageLibrary.loaded \/ bestMatch = 0
       THEN llmPayload
       ELSE allImages[bestMatch]

(* loadImageLibrary at startup; a failed load leaves { collections: {} } *)
LoadImageLibrary(lib) ==
    /\ ~imageLibrary.loaded
    /\ imageLibrary' = [loaded |-> TRUE, images |-> lib]
    /\ UNCHANGED enriched
    /\ UNCHANGED <<orchVars, llmVars, ttsVars, webVars, kioskVars, restVars>>

(* One payload of a timeline event is resolved *)
Enrich(id) ==
    /\ enriched' = [called |-> TRUE, id |-> id,
                    result |-> enrichImagePayload(
                                  [id |-> id, title |-> <<>>, keywords |-> <<>>,
                                   cdn_url |-> "placeholder"])]
    /\ UNCHANGED imageLibrary
    /\ UNCHANGED <<orchVars, llmVars, ttsVars, webVars, kioskVars, restVars>>

ResolverNext ==
    \/ \E lib \in Libraries : LoadImageLibrary(lib)
    \/ \E id \in PayloadIds : Enrich(id)

ResolverSpec == Init /\ [][ResolverNext]_vars

---------------------------------------------------------------------------
(* Properties *)

(* The handlers that call endSession, and those that call refreshSessionTimeout *)
EndNames == {"delete_session", "terminate_session", "goodbye_end", "timeout"}
FailureNames == {"llm_failed", "tts_failed", "preload_failed", "send_failed"}

EndCalled(s) == op'.name \in EndNames /\ op'.sid = s
RefreshCalled(s) ==
    /\ op'.name \in {"converse", "start_narration"}
    /\ op'.sid = s
    /\ op'.code \notin {400, 404}

(* ---- mock TTS service: startMockStream ---- *)

chunkDurationMs == 20

MaxFrames == 4

MockModes == {"normal", "jitter"}

(* the jitterMs a start_stream request asks for *)
JitterValues == {0, 4 * chunkDurationMs}

MockTick == chunkDurationMs \div 2

(* the values of Math.max(0, jitter) the clock of the model tells apart *)
JitterSteps == {0, MockTick, 3 * MockTick}

(* getMockScript: the control messages of the frames of greek_civilization;
   every frame has audio *)
GreekCivilization ==
    << <<"img_preload">>, <<>>, <<>>, <<"img_show", "img_preload">>,
       <<>>, <<>>, <<>>, <<>>, <<"img_show">>, <<>>, <<>>, <<>> >>

MockFrames == SubSeq(GreekCivilization, 1, Min2(MaxFrames, Len(GreekCivilization)))

(* delay = Math.max(0, jitter), jitter = (Math.random() - 0.5) * jitterMs in
   jitter mode and 0 otherwise *)
Jitters(mode, jitterMs) ==
    IF mode = "jitter" THEN {d \in JitterSteps : 2 * d < jitterMs} \cup {0} ELSE {0}

RECURSIVE ControlMessages(_)
ControlMessages(controls) ==
    IF controls = <<>> THEN <<>>
    ELSE <<[type |-> Head(controls), frame_id |-> Unset]>>
         \o ControlMessages(Tail(controls))

(* wss 'message' with type start_stream: startMockStream arms the interval *)
StartMockStream(mode, jitterMs) ==
    /\ mockWs = "OPEN"
    /\ ~mockStream.started
    /\ mockStream' = [started |-> TRUE, interval |-> TRUE, frameId |-> 0,
                      mode |-> mode, jitterMs |-> jitterMs,
                      due |-> mockNow + chunkDurationMs]
    /\ UNCHANGED <<mockNow, mockTimeouts, mockSent, mockWs>>
    /\ UNCHANGED <<orchVars, llmVars, ttsVars, clientVars, broadcastVars>>

(* one run of the setInterval callback *)
MockInterval(delay) ==
    /\ mockStream.interval
    /\ mockStream.due <= mockNow
    /\ IF mockStream.frameId >= Len(MockFrames)
       THEN /\ mockSent' = Append(mockSent, [type |-> "end_of_stream", frame_id |-> Unset])
            /\ mockStream' = [mockStream EXCEPT !.interval = FALSE]
            /\ delay = 0
            /\ UNCHANGED mockTimeouts
       ELSE /\ delay \in Jitters(mockStream.mode, mockStream.jitterMs)
            /\ mockTimeouts' = mockTimeouts \cup
                  {[frame |-> mockStream.frameId + 1, deadline |-> mockNow + delay]}
            /\ mockStream' = [mockStream EXCEPT !.frameId = @ + 1,
                                                !.due = @ + chunkDurationMs]
            /\ UNCHANGED mockSent
    /\ UNCHANGED <<mockNow, mockWs>>
    /\ UNCHANGED <<orchVars, llmVars, ttsVars, clientVars, broadcastVars>>

(* the setTimeout callback of one frame; frame_id is the stream's frameId at
   the time of sending *)
MockFrameTimeout(t) ==
    /\ t \in mockTimeouts
    /\ t.deadline <= mockNow
    /\ mockTimeouts' = mockTimeouts \ {t}
    /\ mockSent' = IF mockWs = "OPEN"
                   THEN mockSent
                        \o <<[type |-> "audio_frame", frame_id |-> mockStream.frameId]>>
                        \o ControlMessages(MockFrames[t.frame])
                   ELSE mockSent
    /\ UNCHANGED <<mockNow, mockStream, mockWs>>
    /\ UNCHANGED <<orchVars, llmVars, ttsVars, clientVars, broadcastVars>>

(* ws 'close': clearInterval(interval) *)
MockClose ==
    /\ mockWs = "OPEN"
    /\ mockWs' = "CLOSED"
    /\ mockStream' = [mockStream EXCEPT !.interval = FALSE]
    /\ UNCHANGED <<mockNow, mockTimeouts, mockSent>>
    /\ UNCHANGED <<orchVars, llmVars, ttsVars, clientVars, broadcastVars>>

(* Date.now() moves on once every timer that is due has run *)
MockAdvance ==
    /\ mockStream.interval \/ mockTimeouts # {}
    /\ mockStream.interval => mockStream.due > mockNow
    /\ \A t \in mockTimeouts : t.deadline > mockNow
    /\ mockNow' = mockNow + MockTick
    /\ UNCHANGED <<mockStream, mockTimeouts, mockSent, mockWs>>
    /\ UNCHANGED <<orchVars, llmVars, ttsVars, clientVars, broadcastVars>>

MockNext ==
    \/ \E mode \in MockModes, jitterMs \in JitterValues : StartMockStream(mode, jitterMs)
    \/ \E delay \in JitterSteps : MockInterval(delay)
    \/ \E t \in mockTimeouts : MockFrameTimeout(t)
    \/ MockClose
    \/ MockAdvance

MockSpec == Init /\ [][MockNext]_vars


(* C1: once a session is ended, every later step leaves all of its fields
   unchanged; the only change still possible is its deletion by the cleanup. *)
C1_EndedImmutable ==
    [][\A s \in SessionIds :
          Ended(s) => \/ (op'.name = "sweep" /\ s \notin DOMAIN sessions')
                      \/ (s \in DOMAIN sessions' /\ sessions'[s] = sessions[s])]_vars

(* C2: a /converse request with its required fields, for a session that is not
   active, is answered 404 and refreshes no timer, starts no LLM call and
   schedules no control message. *)
C2_ConverseRejectsNonActive ==
    [][\A s \in SessionIds :
          (op'.name = "converse" /\ op'.sid = s /\ op'.code # 400 /\ ~Active(s))
          => /\ op'.code = 404
             /\ UNCHANGED <<sessions, sessionTimeouts, turns, dispatch>>]_vars

(* C3: refreshSessionTimeout called for a session that is not active arms no
   inactivity timer. *)
C3_RefreshNoOpUnlessActive ==
    [][\A s \in SessionIds :
          (RefreshCalled(s) /\ ~Active(s)) => sessionTimeouts' = sessionTimeouts]_vars

(* C4: endSession on an already ended session keeps its end reason and its
   ended_at, and does not delete the room a second time. *)
C4_EndIdempotent ==
    [][\A s \in SessionIds :
          (EndCalled(s) /\ Ended(s))
          => /\ sessions'[s].end_reason = sessions[s].end_reason
             /\ sessions'[s].ended_at = sessions[s].ended_at
             /\ roomDeletes'[s] = roomDeletes[s]]_vars

(* C5: one cleanup interval after a session ended, no armed inactivity timer
   references it. *)
C5_NoTimerAfterEnd ==
    \A s \in SessionIds :
        (Ended(s) /\ now - sessions[s].ended_at >= SESSION_CLEANUP_INTERVAL_MS)
        => ~(s \in DOMAIN sessionTimeouts /\ sessionTimeouts[s].pending)

(* C6: an active session always has an armed inactivity timer set to one idle
   window after its last activity, and the clock never passes it; when the
   timer fires on the still active session, the session is ended with reason
   timeout at that instant. *)
C6_IdleSessionTimesOut ==
    [][\A s \in SessionIds :
          /\ Active(s)'
             => /\ s \in DOMAIN sessionTimeouts'
                /\ sessionTimeouts'[s].pending
                /\ sessionTimeouts'[s].deadline
                      = sessions'[s].last_activity + SESSION_TIMEOUT_MS
                /\ now' <= sessionTimeouts'[s].deadline
          /\ (Active(s) /\ op'.name = "timeout" /\ op'.sid = s)
             => /\ Ended(s)'
                /\ sessions'[s].end_reason = "timeout"
                /\ sessions'[s].ended_at
                      = sessions[s].last_activity + SESSION_TIMEOUT_MS]_vars

C6_Witness ==
    \E s \in SessionIds :
        /\ Ended(s)
        /\ op.name = "timeout"
        /\ sessions[s].end_reason = "timeout"
        /\ sessions[s].last_activity = sessions[s].created_at
        /\ sessions[s].ended_at = sessions[s].created_at + SESSION_TIMEOUT_MS

(* C7: a session is never ended with reason timeout before a full idle window
   has elapsed since its last activity. *)
C7_ActivityResetsTimer ==
    [][\A s \in SessionIds :
          (Active(s) /\ Ended(s)' /\ sessions'[s].end_reason = "timeout")
          => now' - sessions[s].last_activity >= SESSION_TIMEOUT_MS]_vars

C7_Witness ==
    \E s \in SessionIds :
        /\ Ended(s)
        /\ sessions[s].end_reason = "timeout"
        /\ sessions[s].last_activity > sessions[s].created_at
        /\ sessions[s].ended_at = sessions[s].last_activity + SESSION_TIMEOUT_MS

(* C8: a session is no longer active once duration_seconds have passed since
   its creation. *)
C8_HardDurationEnds ==
    \A s \in SessionIds : Active(s) => now <= DurationExpiry(s)

(* C9: a session goes from active to ended only in a handler that ends it (the
   delete and goodbye endpoints, the operator's terminate message, the
   inactivity timer); a failed LLM call, TTS call, image preload or datachannel
   send changes no session. *)
C9_OnlyEndPathsEnd ==
    [][/\ \A s \in SessionIds : (Active(s) /\ ~Active(s)') => EndCalled(s)
       /\ op'.name \in FailureNames => sessions' = sessions]_vars

C9_Witness ==
    /\ op.name \in FailureNames
    /\ Active(op.sid)

(* C10: one cleanup interval after a session ended, none of its timers is still
   armed: neither its inactivity timer nor a dispatch timer of its turns. *)
C10_NoResidualTimers ==
    \A s \in SessionIds :
        (Ended(s) /\ now - sessions[s].ended_at >= SESSION_CLEANUP_INTERVAL_MS)
        => /\ ~(s \in DOMAIN sessionTimeouts /\ sessionTimeouts[s].pending)
           /\ \A d \in dispatch \cup preloading : d.sid # s

(* C11: the history mutations of two turns of a session never interleave: no
   entry pushed by another /chat request lies between two entries pushed by the
   same request. *)
C11_TurnsSerialised ==
    \A s \in DOMAIN conversations :
        LET h == conversations[s].history
        IN \A i, j, k \in 1..Len(h) :
              (i < j /\ j < k /\ h[i].chat = h[k].chat) => h[j].chat = h[i].chat

(* C12: when a turn completes, the history is the history the turn found,
   followed by its user turn and its assistant turn; and no /chat step makes a
   history shorter. *)
C12_HistoryAppendsTurn ==
    [][/\ \A c \in chats :
            (chatOp'.name = "chat_reply" /\ chatOp'.id = c.id)
            => /\ c.sid \in DOMAIN conversations'
               /\ Len(conversations'[c.sid].history) = Len(c.before) + 2
               /\ SubSeq(conversations'[c.sid].history, 1, Len(c.before)) = c.before
               /\ conversations'[c.sid].history[Len(c.before) + 1].chat = c.id
               /\ conversations'[c.sid].history[Len(c.before) + 2].chat = c.id
       /\ chatOp'.name # "clear"
          => \A s \in DOMAIN conversations :
                /\ s \in DOMAIN conversations'
                /\ Len(conversations'[s].history) >= Len(conversations[s].history)]_vars

(* C13: while synthesis requests for one text are in progress concurrently, the
   synthesiser runs at most once for that text. *)
C13_SingleFlight ==
    \A t \in Texts : Cardinality({j \in synths : j.text = t}) <= 1

(* C14: once a synthesis of a text has completed, no later request invokes the
   synthesiser for that text, and every audio answered for it equals the first
   response. *)
C14_ServedFromCache ==
    [][\A t \in Texts :
          firstAudio[t] # <<>>
          => /\ synthCalls'[t] = synthCalls[t]
             /\ (ttsOp'.text = t /\ ttsOp'.code = 200) => ttsOp'.audio = firstAudio[t]]_vars

(* C15: a cache lookup made while an entry of its key is being written finds
   no entry or the complete bytes of that write. *)
C15_AtomicCacheWrite ==
    [][\A w \in writes :
          (ttsOp'.name = "cache_hit" /\ ttsOp'.text = w.text) => ttsOp'.audio = w.data]_vars

EndChats(room) == {i \in 1..Len(channel[room]) : channel[room][i].type = "end_chat"}

(* C16: when the img_show of a timeline event is put on the datachannel, the
   img_preload of the same event has been put on it already. *)
C16_PreloadBeforeShow ==
    [][\A d \in dispatch :
          (d.type = "img_show" /\ d \notin dispatch' /\ op'.name = "img_show")
          => ~\E p \in dispatch' \cup preloading' :
                p.type = "img_preload" /\ p.turn = d.turn /\ p.seq = d.seq - 1]_vars

(* C17: every img_show a turn schedules carries
   playout_ts = (server time at anchoring + ANCHOR_LEAD_MS) + time_offset_ms. *)
C17_PlayoutAnchoredWithLead ==
    [][\A d \in dispatch' \ dispatch :
          d.type = "img_show"
          => LET ANCHOR_LEAD_MS == 1000
                 speech_start_ts == now + ANCHOR_LEAD_MS
                 time_offset_ms == d.deadline - now
             IN d.playout_ts = speech_start_ts + time_offset_ms]_vars

(* C18: the end_chat message of a turn is dispatched at the end of the speech:
   the step that anchors the speech and schedules the timeline puts no end_chat
   on the datachannel. *)
C18_EndChatAtEndOfSpeech ==
    [][\A s \in SessionIds :
          (op'.name \in {"tts_reply", "tts_failed"} /\ op'.sid = s)
          => Cardinality(EndChats(s)') <= Cardinality(EndChats(s))]_vars

(* C19: a turn whose LLM call fails is answered 502, schedules no visuals and
   leaves the session as it is. *)
C19_LlmFailureIs502 ==
    [][op'.name = "llm_failed"
       => /\ op'.code = 502
          /\ dispatch' = dispatch
          /\ sessions' = sessions]_vars

(* C20: no turn waits for the LLM longer than the per-turn LLM timeout of 15 s. *)
C20_LlmTimeout ==
    \A t \in turns :
        LET LLM_TIMEOUT_MS == 15000
        IN t.pc = "llm" => now - t.started <= LLM_TIMEOUT_MS

(* C21: a turn whose TTS call fails or times out still succeeds: it answers 200
   with an empty audio payload and a tts_error tag, and arms exactly the timers
   of its timeline, as a turn with audio does. *)
C21_TtsFailureStillSucceeds ==
    [][op'.name = "tts_failed"
       => /\ op'.code = 200
          /\ op'.audio_base64 = ""
          /\ op'.tts_error # ""
          /\ \E t \in turns :
                /\ turns' = turns \ {t}
                /\ dispatch' = dispatch \cup
                       UNION {EventTimers(t, i) : i \in 1..Len(t.events)}]_vars

(* A failed TTS call has just been answered and the turn's timers are armed. *)
C21_Witness ==
    /\ op.name = "tts_failed"
    /\ op.code = 200
    /\ \E d \in dispatch : d.sid = op.sid /\ d.type = "img_show"

(* C22: once the kiosk's clock offset has been learned, no later message
   changes it; it keeps its value until the synchronisation is reset. Stated
   for the electron kiosk, whose offset is learned from time_sync. *)
C22_OffsetImmutable ==
    [][(kioskOp.synced /\ kioskOp'.name # "clear")
       => imageSync'.timeOffset = imageSync.timeOffset]_vars

(* C23: an img_show whose converted delay is below -100 ms is dropped: the
   electron kiosk arms no timer for it and loads its image into no buffer. *)
C23_TooLateShowDropped ==
    [][(kioskOp'.name = "img_show" /\ kioskOp'.delay < 0 - LATE_TOLERANCE_MS)
       => /\ imageBuffers' = imageBuffers
          /\ rendererTimeouts' = rendererTimeouts]_vars

(* C24: an img_show whose converted delay lies in -100..0, both bounds
   included, is passed to showImage at once: it is neither skipped nor given
   a timer. *)
C24_TolerantShowImmediate ==
    [][(/\ schedOp'.name = "img_show"
        /\ schedOp'.delay >= 0 - LATE_TOLERANCE_MS
        /\ schedOp'.delay <= 0)
       => /\ schedOp'.branch \in {"shown", "not_preloaded"}
          /\ timeouts' = timeouts]_vars

(* C25: the timer of an img_show received ahead of its local time L fires at
   L and displays the show's image in the buffer that becomes current. *)
C25_FutureShowDisplayed ==
    [][schedOp'.name = "show_timer"
       => /\ schedOp'.delay <= LATE_TOLERANCE_MS
          /\ currentImageId' = schedOp'.id
          /\ containers'[currentBuffer'].backgroundImage = CdnUrl(schedOp'.id)]_vars

(* C26 as stated: reset_sync() leaves no clock offset, no pending show timer,
   and both the preload store and the pending store empty. *)
C26_ResetEmptiesBothStores ==
    [][schedOp'.name = "reset_sync"
       => /\ timeOffset' = {}
          /\ ~syncInitialized'
          /\ \A t \in timeouts' : t.kind # "show"
          /\ scheduledShows' = <<>>
          /\ preloadedImages' = <<>>]_vars

(* C26, amended: reset_sync() leaves no clock offset, no pending show timer and
   an empty pending store; the preload store is left as it was. *)
C26_ResetClearsSyncAndShows ==
    [][schedOp'.name = "reset_sync"
       => /\ timeOffset' = {}
          /\ ~syncInitialized'
          /\ \A t \in timeouts' : t.kind # "show"
          /\ scheduledShows' = <<>>
          /\ preloadedImages' = preloadedImages]_vars

(* A reset has just cleared scheduled shows while an image is preloaded. *)
C26_Witness ==
    /\ schedOp.name = "reset_sync"
    /\ schedOp.branch = "cleared"
    /\ preloadedImages # <<>>
    /\ timeOffset = {}

(* C27: the frame that completes a crossfade leaves its target buffer at
   opacity 1 and its source buffer at opacity 0, so at most one buffer is
   visible, whatever shows came before. *)
C27_CrossfadeEndpoint ==
    [][\A x \in animations :
          (schedOp'.name = "frame" /\ schedOp'.branch = "complete"
             /\ x \notin animations')
          => /\ containers'[x.to].opacity = 100
             /\ containers'[x.from].opacity = 0]_vars

(* A crossfade has just completed after an earlier show had swapped the buffers. *)
C27_Witness ==
    /\ schedOp.name = "frame"
    /\ schedOp.branch = "complete"
    /\ animations = {}
    /\ currentBuffer = "a"
    /\ containers["a"].opacity = 100
    /\ containers["b"].opacity = 0

(* C28: an img_preload for an id that is already preloaded or being loaded
   starts no further load of the image. *)
C28_PreloadOncePerId ==
    [][(/\ schedOp'.name = "img_preload"
        /\ \/ schedOp'.id \in DOMAIN preloadedImages
           \/ \E l \in loading : l.id = schedOp'.id)
       => loading' = loading]_vars

(* C29: a show for an id the preload store does not hold renders a fallback
   image in its place: a buffer is swapped in, and it does not carry the
   missing image. *)
C29_MissingImageFallsBack ==
    [][schedOp'.branch = "not_preloaded"
       => /\ currentBuffer' # currentBuffer
          /\ containers'[currentBuffer'].backgroundImage # ""
          /\ containers'[currentBuffer'].backgroundImage # CdnUrl(schedOp'.id)]_vars

(* C30: a payload whose id is exactly the id of a library image resolves to
   that image, whatever the other images score. *)
C30_ExactIdWins ==
    (enriched.called /\ \E i \in DOMAIN imageLibrary.images :
                            imageLibrary.images[i].id = enriched.id)
    => enriched.result.id = enriched.id

(* C31: when no image of a non-empty library scores above zero for a payload,
   the resolver returns one of the library's images, not the payload. *)
C31_NoMatchFallsBackToLibrary ==
    LET searchTerms == SplitJoin(toLowerCase(enriched.id))
        images == imageLibrary.images
    IN (/\ enriched.called
        /\ images # <<>>
        /\ \A i \in DOMAIN images : Score(images[i], searchTerms) = 0)
       => \E i \in DOMAIN images : enriched.result = images[i]

(* C32: each tick of the timer loop reports every active session, and no
   other, with remaining = max(0, duration - elapsed) in seconds, never a
   negative value. *)
C32_RemainingClamped ==
    [][op'.name = "sessions_update"
       => /\ \A s \in DOMAIN sessions :
                Active(s) =>
                   \E u \in operatorUpdate' :
                      /\ u.sessionId = s
                      /\ LET elapsed_s == (now - sessions[s].created_at) \div 1000
                             left == sessions[s].duration_seconds - elapsed_s
                         IN u.remaining = IF left > 0 THEN left ELSE 0
          /\ \A u \in operatorUpdate' : Active(u.sessionId) /\ u.remaining >= 0]_vars

(* A tick has just reported a session that has outlived its duration: the
   clamp acted. *)
C32_Witness ==
    /\ op.name = "sessions_update"
    /\ \E u \in operatorUpdate :
          /\ Active(u.sessionId)
          /\ u.remaining = 0
          /\ now - sessions[u.sessionId].created_at
                > sessions[u.sessionId].duration_seconds * 1000

(* C33: a session leaves the registry only in the cleanup, only when it is
   ended and its ended_at is more than one hour old; an active session is
   never removed, and every ended session is eventually removed. *)
C33_SweepRemovesOnlyOldEnded ==
    /\ [][\A s \in DOMAIN sessions :
             s \notin DOMAIN sessions'
             => /\ op'.name = "sweep"
                /\ sessions[s].status = "ended"
                /\ now - sessions[s].ended_at > SESSION_RETENTION_MS]_vars
    /\ \A s \in SessionIds : Ended(s) ~> (s \notin DOMAIN sessions)

(* The cleanup has just removed the session that had been created. *)
C33_Witness ==
    /\ op.name = "sweep"
    /\ nextId > 1
    /\ 1 \notin DOMAIN sessions

(* C34: the cache is written only from a completed synthesis: every write
   started at the end of an audio stream carries the whole audio of its text,
   also when the client closed the socket while the audio was produced. *)
C34_CacheOnlyCompleteAudio ==
    [][ttsOp'.name = "end_of_stream"
       => \A w \in writes' \ writes : w.data = AudioOf(w.text)]_vars

(* C35: the images_scheduled a turn answers with is the number of timeline
   events for which the turn armed an img_preload and an img_show. *)
C35_ImagesScheduledCount ==
    [][op'.name \in {"tts_reply", "tts_failed"}
       => /\ op'.images_scheduled =
                Cardinality({d \in dispatch' \ dispatch : d.type = "img_show"})
          /\ op'.images_scheduled =
                Cardinality({d \in dispatch' \ dispatch : d.type = "img_preload"})]_vars

(* C36: once a session has ended, the LLM service holds no conversation
   history under its id. *)
C36_HistoryDiscardedAtEnd ==
    \A s \in DOMAIN sessions : Ended(s) => s \notin DOMAIN conversations

(* C39: a /chat whose model call fails leaves the session's stored history as
   it was before the request. *)
C39_FailedChatLeavesHistory ==
    [][chatOp'.name = "chat_failed"
       => \A c \in chats \ chats' :
             (IF c.sid \in DOMAIN conversations'
              THEN conversations'[c.sid].history
              ELSE <<>>) = c.before]_vars

(* C37: once every crossfade has run to completion, the visible buffer is the
   scheduler's current buffer and holds the image shown last. *)
C37_LastShownVisible ==
    (animations = {} /\ currentImageId # "")
    => /\ containers[currentBuffer].opacity = 100
       /\ containers[currentBuffer].backgroundImage = CdnUrl(currentImageId)
       /\ \A b \in Buffers \ {currentBuffer} : containers[b].opacity = 0

(* C38: the TTL cleanup of a preload removes only the entry that preload
   stored, never the entry a later preload of the same id stored. *)
C38_TtlRemovesOwnEntry ==
    [][schedOp'.name = "ttl_timer"
       => \A t \in timeouts \ timeouts' :
             t.id \in DOMAIN preloadedImages
             => preloadedImages[t.id].loadedAt = t.armedAt]_vars

(* C40: end_of_stream is the last message the mock TTS stream sends on the
   connection. *)
C40_EndOfStreamLast ==
    \A i \in 1..Len(mockSent) :
        mockSent[i].type = "end_of_stream" => i = Len(mockSent)

====
